---- MODULE Spec2Model ----
(***************************************************************************)
(* HDRF<T>::performStep (include/CXXGraph/Partitioning/HDRF.hpp): the      *)
(* per-edge assignment of the HDRF vertex-cut partitioner, run by several  *)
(* workers against one shared partition state.                             *)
(*                                                                         *)
(* Every worker is a program counter walking through performStep, one      *)
(* access to shared memory per step.  The vertex records and the partition *)
(* state (Record, PartitionState, CoordinatedPartitionState) are not part  *)
(* of the sources at hand; they are modelled from their contract: a record *)
(* is a degree, a replica set and a binary try-lock, the state is a vector *)
(* of edge loads and a vector of vertex loads, each accessor is atomic.    *)
(*                                                                         *)
(* Scores are doubles in the code.  They are modelled as exact rationals   *)
(* <<numerator, denominator>> with a positive denominator.                 *)
(***************************************************************************)
EXTENDS Integers, Sequences, FiniteSets, TLC

\* ---------------------------------------------------------------- bounds
NumVertices == 4
NumWorkers == 2
NumPartitions == 2
MaxStream == 3
MaxRestarts == 2

Vertices == 1..NumVertices
Workers == 1..NumWorkers
Edges == Vertices \X Vertices
\* the edges of the general workload: a self-loop, an edge and its reverse,
\* and an edge sharing one endpoint with them
EdgePool == {<<1, 1>>, <<1, 2>>, <<2, 1>>, <<2, 3>>}

\* 32-bit int limits of usleep_time
INT_MAX == 2147483647
INT_MIN == -INT_MAX - 1

VARIABLES
  GLOBALS,        \* the configuration: numberOfPartition, param1, param2, SLEEP_LIMIT
  coordinated,    \* TRUE iff the state object is a CoordinatedPartitionState
  stream,         \* the edge source: for each edge still to come, the set of
                  \* edges it may be
  lock,           \* lock[x]: the worker owning the record's lock, 0 when free
  degree,         \* degree[x]
  replicaSet,     \* replicaSet[x]: partitions holding a replica of x
  edgeLoad,       \* edgeLoad[m]
  assigned,       \* assigned[m]: the edges placed in partition m
  vertexLoad,     \* vertexLoad[m]
  pc,             \* pc[w]: where worker w stands in performStep
  edge,           \* edge[w]: <<u, v>> of the call in progress
  usleep_time,    \* usleep_time[w]
  MIN_LOAD,       \* MIN_LOAD[w]
  MAX_LOAD,       \* MAX_LOAD[w]
  m_loop,         \* m_loop[w]: the loop variable m of the scoring loop
  MAX_SCORE,      \* MAX_SCORE[w], a rational
  candidates,     \* candidates[w]: sequence of partitions
  machine_id,     \* machine_id[w]
  restarts,       \* restarts[w]: recursion depth of the call (saturating)
  scores,         \* scores[w]: the SCORE_m of the iterations of the loop so far
  completed,      \* number of performStep calls that returned
  retried,        \* number of those that went through a restart
  touched,        \* touched[x]: number of completed calls whose edge touches x
  baseCalls,      \* incrementMachineLoadVertices invoked on a base-level state
  aborted         \* the process ended (exit(-1) or a crash)

shared == <<lock, degree, replicaSet, edgeLoad, assigned, vertexLoad>>
locals == <<pc, edge, usleep_time, MIN_LOAD, MAX_LOAD, m_loop, MAX_SCORE,
            candidates, machine_id, restarts, scores>>
ghosts == <<completed, retried, touched, baseCalls, aborted>>
vars == <<GLOBALS, coordinated, stream, shared, locals, ghosts>>

\* ------------------------------------------------------------- rationals
Rat(n, d) == <<n, d>>
RatLess(a, b) == a[1] * b[2] < b[1] * a[2]
RatEq(a, b) == a[1] * b[2] = b[1] * a[2]
RatAdd(a, b) == <<a[1] * b[2] + b[1] * a[2], a[2] * b[2]>>
RatMul(a, b) == <<a[1] * b[1], a[2] * b[2]>>
Zero == Rat(0, 1)
RECURSIVE Gcd(_, _)
Gcd(a, b) == IF b = 0 THEN a ELSE Gcd(b, a % b)
Abs(n) == IF n < 0 THEN -n ELSE n
\* the same rational in lowest terms
Norm(a) == LET g == Gcd(Abs(a[1]), a[2]) IN <<a[1] \div g, a[2] \div g>>

\* ---------------------------------------------------------------- helpers
P == GLOBALS.numberOfPartition
lambda == GLOBALS.param1
epsilon == GLOBALS.param2
Partitions == 0..(P - 1)

U(w) == edge[w][1]
V(w) == edge[w][2]

SetMin(S) == CHOOSE x \in S : \A y \in S : x <= y
SetMax(S) == CHOOSE x \in S : \A y \in S : x >= y

getMinLoad == SetMin({edgeLoad[m] : m \in Partitions})
getMaxLoad == SetMax({edgeLoad[m] : m \in Partitions})

RECURSIVE SumOver(_, _)
SumOver(f, S) ==
  IF S = {} THEN 0
  ELSE LET x == CHOOSE y \in S : TRUE IN f[x] + SumOver(f, S \ {x})

\* ------------------------------------------------- the records' contract
hasReplicaInPartition(x, m) == m \in replicaSet[x]
addPartition(x, m) == [replicaSet EXCEPT ![x] = @ \cup {m}]
incrementDegree(x) == [degree EXCEPT ![x] = @ + 1]
\* getLock is a try-lock: it succeeds iff the lock is free
getLock(x) == lock[x] = 0
\* releaseLock by the owner frees the lock.  By anyone else it breaks the
\* contract (unlock of a mutex the caller does not own is undefined): the lock
\* ends up free, or is left as it is.
releaseLock(w, x) ==
  IF lock[x] = w THEN {[lock EXCEPT ![x] = 0]}
  ELSE {[lock EXCEPT ![x] = 0], lock}

\* ------------------------------------------------------ the score (115-137)
\* fu = degree_u; fu /= SUM; fu = 1 + (1 - fu), or 0 without a replica
\* (mutant) the replica test inverted
AffinityInverted(has, deg, sum) ==
  IF has THEN Zero ELSE Rat(2 * sum - deg, sum)

\* (mutant) fu = 1 + fu in place of fu = 1 + (1 - fu)
AffinityGrowing(has, deg, sum) ==
  IF has THEN Rat(sum + deg, sum) ELSE Zero

Affinity(has, deg, sum) ==
  IF has THEN Rat(2 * sum - deg, sum) ELSE Zero

\* (mutant) bal left as computed, without the clamp of 134-136
BalanceUnclamped(maxl, minl, load) ==
  Rat((maxl - load) * epsilon[2], epsilon[1] + (maxl - minl) * epsilon[2])

\* bal = (MAX_LOAD - load) / (epsilon + MAX_LOAD - MIN_LOAD), clamped at 0
Balance(maxl, minl, load) ==
  LET bal == Rat((maxl - load) * epsilon[2],
                 epsilon[1] + (maxl - minl) * epsilon[2])
  IN IF RatLess(bal, Zero) THEN Zero ELSE bal

\* 116-137: SCORE_m = fu + fv + lambda * bal for partition m, from the degrees
\* du, dv of the endpoints, whether each has a replica in m, the load of m
\* and the MIN_LOAD / MAX_LOAD snapshot
ScoreOf(du, dv, hasU, hasV, load, maxl, minl) ==
  LET degree_u == du + 1
      degree_v == dv + 1
      SUM == degree_u + degree_v
      fu == Affinity(hasU, degree_u, SUM)
      fv == Affinity(hasV, degree_v, SUM)
      bal == Balance(maxl, minl, load)
  IN Norm(RatAdd(RatAdd(fu, fv), RatMul(lambda, bal)))

\* the score worker w computes in iteration m of its loop, from the records
\* and the load as they are at that moment
Score(w, m) ==
  ScoreOf(degree[U(w)], degree[V(w)],
          hasReplicaInPartition(U(w), m), hasReplicaInPartition(V(w), m),
          edgeLoad[m], MAX_LOAD[w], MIN_LOAD[w])

\* usleep_time = (int)pow(usleep_time, 2).  A square that does not fit an int
\* makes the conversion undefined: the build yields INT_MIN, INT_MAX or the
\* low 32 bits of the square.
Low32OfSquare(t) ==
  CASE t = 65536 -> 0
    [] t = INT_MIN -> 0
    [] t = INT_MAX -> 1
    [] OTHER -> 0
Squared(t) ==
  IF t > -46341 /\ t < 46341 THEN {t * t}
  ELSE {INT_MIN, INT_MAX, Low32OfSquare(t)}

\* ------------------------------------------------------------------- Init
FreshLocals ==
  /\ pc = [w \in Workers |-> "idle"]
  /\ edge = [w \in Workers |-> <<1, 1>>]
  /\ usleep_time = [w \in Workers |-> 2]
  /\ MIN_LOAD = [w \in Workers |-> 0]
  /\ MAX_LOAD = [w \in Workers |-> 0]
  /\ m_loop = [w \in Workers |-> 0]
  /\ MAX_SCORE = [w \in Workers |-> Zero]
  /\ candidates = [w \in Workers |-> <<>>]
  /\ machine_id = [w \in Workers |-> -1]
  /\ restarts = [w \in Workers |-> 0]
  /\ scores = [w \in Workers |-> <<>>]

FreshState ==
  /\ lock = [x \in Vertices |-> 0]
  /\ degree = [x \in Vertices |-> 0]
  /\ replicaSet = [x \in Vertices |-> {}]
  /\ edgeLoad = [m \in Partitions |-> 0]
  /\ assigned = [m \in Partitions |-> {}]
  /\ vertexLoad = [m \in Partitions |-> 0]
  /\ completed = 0
  /\ retried = 0
  /\ touched = [x \in Vertices |-> 0]
  /\ baseCalls = 0
  /\ aborted = FALSE

Config(p, lam, eps, lim) ==
  [numberOfPartition |-> p, param1 |-> lam, param2 |-> eps, SLEEP_LIMIT |-> lim]

\* ---------------------------------------------------------------- actions
\* The driver hands the next edge of the stream to an idle worker, which
\* enters performStep (72-85).
Call(w) ==
  /\ ~aborted
  /\ pc[w] = "idle"
  /\ stream # <<>>
  /\ \E e \in Head(stream) : edge' = [edge EXCEPT ![w] = e]
  /\ stream' = Tail(stream)
  /\ usleep_time' = [usleep_time EXCEPT ![w] = 2]
  /\ restarts' = [restarts EXCEPT ![w] = 0]
  /\ pc' = [pc EXCEPT ![w] = "lockU"]
  /\ UNCHANGED <<GLOBALS, coordinated, shared, ghosts,
                 MIN_LOAD, MAX_LOAD, m_loop, MAX_SCORE, candidates, machine_id,
                 scores>>

\* 86, 90-91: u_record->getLock() succeeds
AcquireU(w) ==
  /\ ~aborted
  /\ pc[w] = "lockU"
  /\ getLock(U(w))
  /\ lock' = [lock EXCEPT ![U(w)] = w]
  /\ usleep_time' = [usleep_time EXCEPT ![w] = 2]
  /\ pc' = [pc EXCEPT ![w] = IF U(w) # V(w) THEN "lockV" ELSE "minLoad"]
  /\ UNCHANGED <<GLOBALS, coordinated, stream, ghosts, degree, replicaSet,
                 edgeLoad, assigned, vertexLoad, edge, MIN_LOAD, MAX_LOAD, m_loop,
                 MAX_SCORE, candidates, machine_id, restarts, scores>>

\* 86-89: u_record->getLock() fails; sleep, square the delay, poll again
WaitU(w) ==
  /\ ~aborted
  /\ pc[w] = "lockU"
  /\ ~getLock(U(w))
  /\ \E t \in Squared(usleep_time[w]) :
       usleep_time' = [usleep_time EXCEPT ![w] = t]
  /\ UNCHANGED <<GLOBALS, coordinated, stream, shared, ghosts, pc, edge,
                 MIN_LOAD, MAX_LOAD, m_loop, MAX_SCORE, candidates, machine_id,
                 restarts, scores>>

\* 92, 103: v_record->getLock() succeeds
AcquireV(w) ==
  /\ ~aborted
  /\ pc[w] = "lockV"
  /\ getLock(V(w))
  /\ lock' = [lock EXCEPT ![V(w)] = w]
  /\ pc' = [pc EXCEPT ![w] = "minLoad"]
  /\ UNCHANGED <<GLOBALS, coordinated, stream, ghosts, degree, replicaSet,
                 edgeLoad, assigned, vertexLoad, edge, usleep_time, MIN_LOAD, MAX_LOAD,
                 m_loop, MAX_SCORE, candidates, machine_id, restarts, scores>>

\* 92-96: v_record->getLock() fails; sleep, square the delay, compare it with
\* SLEEP_LIMIT
WaitV(w) ==
  /\ ~aborted
  /\ pc[w] = "lockV"
  /\ ~getLock(V(w))
  /\ \E t \in Squared(usleep_time[w]) :
       /\ usleep_time' = [usleep_time EXCEPT ![w] = t]
       /\ pc' = [pc EXCEPT ![w] =
                   IF t > GLOBALS.SLEEP_LIMIT THEN "restart" ELSE "lockV"]
  /\ UNCHANGED <<GLOBALS, coordinated, stream, shared, ghosts, edge,
                 MIN_LOAD, MAX_LOAD, m_loop, MAX_SCORE, candidates, machine_id,
                 restarts, scores>>

\* (mutant) the restart without the release of u (no line 97)
RestartHolding(w) ==
  /\ ~aborted
  /\ pc[w] = "restart"
  /\ usleep_time' = [usleep_time EXCEPT ![w] = 2]
  /\ restarts' = [restarts EXCEPT ![w] =
                    IF @ < MaxRestarts THEN @ + 1 ELSE @]
  /\ pc' = [pc EXCEPT ![w] = "lockU"]
  /\ UNCHANGED <<GLOBALS, coordinated, stream, shared, ghosts, edge, MIN_LOAD,
                 MAX_LOAD, m_loop, MAX_SCORE, candidates, machine_id, scores>>

\* 97-99: release u and run performStep again for the same edge (72-85 of the
\* inner call); the outer call returns when the inner one does
Restart(w) ==
  /\ ~aborted
  /\ pc[w] = "restart"
  /\ \E l \in releaseLock(w, U(w)) : lock' = l
  /\ usleep_time' = [usleep_time EXCEPT ![w] = 2]
  /\ restarts' = [restarts EXCEPT ![w] =
                    IF @ < MaxRestarts THEN @ + 1 ELSE @]
  /\ pc' = [pc EXCEPT ![w] = "lockU"]
  /\ UNCHANGED <<GLOBALS, coordinated, stream, ghosts, degree, replicaSet,
                 edgeLoad, assigned, vertexLoad, edge, MIN_LOAD, MAX_LOAD, m_loop,
                 MAX_SCORE, candidates, machine_id, scores>>

\* 106, 109: MIN_LOAD = state->getMinLoad()
MinLoad(w) ==
  /\ ~aborted
  /\ pc[w] = "minLoad"
  /\ MIN_LOAD' = [MIN_LOAD EXCEPT ![w] = getMinLoad]
  /\ pc' = [pc EXCEPT ![w] = "maxLoad"]
  /\ UNCHANGED <<GLOBALS, coordinated, stream, shared, ghosts, edge,
                 usleep_time, MAX_LOAD, m_loop, MAX_SCORE, candidates,
                 machine_id, restarts, scores>>

\* 110-115: MAX_LOAD = state->getMaxLoad(); candidates empty, MAX_SCORE 0, m 0
MaxLoad(w) ==
  /\ ~aborted
  /\ pc[w] = "maxLoad"
  /\ MAX_LOAD' = [MAX_LOAD EXCEPT ![w] = getMaxLoad]
  /\ m_loop' = [m_loop EXCEPT ![w] = 0]
  /\ MAX_SCORE' = [MAX_SCORE EXCEPT ![w] = Zero]
  /\ candidates' = [candidates EXCEPT ![w] = <<>>]
  /\ scores' = [scores EXCEPT ![w] = <<>>]
  /\ pc' = [pc EXCEPT ![w] = "score"]
  /\ UNCHANGED <<GLOBALS, coordinated, stream, shared, ghosts, edge,
                 usleep_time, MIN_LOAD, machine_id, restarts>>

\* (mutant) the candidates of a lower score are kept when a higher score is
\* found (no candidates.clear())
ScoreStepNoClear(w) ==
  /\ ~aborted
  /\ pc[w] = "score"
  /\ m_loop[w] < P
  /\ LET m == m_loop[w]
         SCORE_m == Score(w, m)
     IN /\ m_loop' = [m_loop EXCEPT ![w] = m + 1]
        /\ scores' = [scores EXCEPT ![w] = Append(@, SCORE_m)]
        /\ IF RatLess(MAX_SCORE[w], SCORE_m)
           THEN /\ MAX_SCORE' = [MAX_SCORE EXCEPT ![w] = SCORE_m]
                /\ candidates' = [candidates EXCEPT ![w] = Append(@, m)]
           ELSE IF RatEq(SCORE_m, MAX_SCORE[w])
           THEN /\ candidates' = [candidates EXCEPT ![w] = Append(@, m)]
                /\ UNCHANGED MAX_SCORE
           ELSE UNCHANGED <<MAX_SCORE, candidates>>
  /\ UNCHANGED <<GLOBALS, coordinated, stream, shared, ghosts, pc, edge,
                 usleep_time, MIN_LOAD, MAX_LOAD, machine_id, restarts>>

\* 115-153: one iteration of the scoring loop
ScoreStep(w) ==
  /\ ~aborted
  /\ pc[w] = "score"
  /\ m_loop[w] < P
  /\ LET m == m_loop[w]
         SCORE_m == Score(w, m)
     IN IF RatLess(SCORE_m, Zero)
        THEN /\ aborted' = TRUE
             /\ UNCHANGED <<MAX_SCORE, candidates, m_loop, scores>>
        ELSE /\ aborted' = aborted
             /\ m_loop' = [m_loop EXCEPT ![w] = m + 1]
             /\ scores' = [scores EXCEPT ![w] = Append(@, SCORE_m)]
             /\ IF RatLess(MAX_SCORE[w], SCORE_m)
                THEN /\ MAX_SCORE' = [MAX_SCORE EXCEPT ![w] = SCORE_m]
                     /\ candidates' = [candidates EXCEPT ![w] = <<m>>]
                ELSE IF RatEq(SCORE_m, MAX_SCORE[w])
                THEN /\ candidates' = [candidates EXCEPT ![w] = Append(@, m)]
                     /\ UNCHANGED MAX_SCORE
                ELSE UNCHANGED <<MAX_SCORE, candidates>>
  /\ UNCHANGED <<GLOBALS, coordinated, stream, shared, completed, retried, touched,
                 baseCalls, pc, edge, usleep_time, MIN_LOAD, MAX_LOAD,
                 machine_id, restarts>>

\* 115 (loop exit), 155-171: abort on an empty candidate list, else
\* machine_id = candidates.at(distribution(rand) % candidates.size())
Choose(w) ==
  /\ ~aborted
  /\ pc[w] = "score"
  /\ m_loop[w] >= P
  /\ IF candidates[w] = <<>>
     THEN /\ aborted' = TRUE
          /\ UNCHANGED <<machine_id, pc>>
     ELSE /\ aborted' = aborted
          /\ \E choice \in 1..Len(candidates[w]) :
               machine_id' = [machine_id EXCEPT ![w] = candidates[w][choice]]
          /\ pc' = [pc EXCEPT ![w] = "chkU"]
  /\ UNCHANGED <<GLOBALS, coordinated, stream, shared, completed, retried, touched,
                 baseCalls, edge, usleep_time, MIN_LOAD, MAX_LOAD, m_loop,
                 MAX_SCORE, candidates, restarts, scores>>

\* 177 / 181: if (!record->hasReplicaInPartition(machine_id))
Chk(w, x, here, add, skip) ==
  /\ ~aborted
  /\ pc[w] = here
  /\ pc' = [pc EXCEPT ![w] =
              IF hasReplicaInPartition(x, machine_id[w]) THEN skip ELSE add]
  /\ UNCHANGED <<GLOBALS, coordinated, stream, shared, ghosts, edge,
                 usleep_time, MIN_LOAD, MAX_LOAD, m_loop, MAX_SCORE,
                 candidates, machine_id, restarts, scores>>

\* (mutant) a replica added in every tied candidate partition
AddInAllCandidates(w, x, here, next) ==
  /\ ~aborted
  /\ pc[w] = here
  /\ replicaSet' = [replicaSet EXCEPT ![x] =
                      @ \cup {candidates[w][i] : i \in 1..Len(candidates[w])}]
  /\ pc' = [pc EXCEPT ![w] = next]
  /\ UNCHANGED <<GLOBALS, coordinated, stream, lock, degree, edgeLoad,
                 assigned, vertexLoad, ghosts, edge, usleep_time, MIN_LOAD,
                 MAX_LOAD, m_loop, MAX_SCORE, candidates, machine_id, restarts,
                 scores>>

\* (mutant) the record keeps the last partition only
AddReplaces(w, x, here, next) ==
  /\ ~aborted
  /\ pc[w] = here
  /\ replicaSet' = [replicaSet EXCEPT ![x] = {machine_id[w]}]
  /\ pc' = [pc EXCEPT ![w] = next]
  /\ UNCHANGED <<GLOBALS, coordinated, stream, lock, degree, edgeLoad,
                 assigned, vertexLoad, ghosts, edge, usleep_time, MIN_LOAD,
                 MAX_LOAD, m_loop, MAX_SCORE, candidates, machine_id, restarts,
                 scores>>

\* 178 / 182: record->addPartition(machine_id)
Add(w, x, here, next) ==
  /\ ~aborted
  /\ pc[w] = here
  /\ replicaSet' = addPartition(x, machine_id[w])
  /\ pc' = [pc EXCEPT ![w] = next]
  /\ UNCHANGED <<GLOBALS, coordinated, stream, lock, degree, edgeLoad,
                 assigned, vertexLoad, ghosts, edge, usleep_time, MIN_LOAD, MAX_LOAD,
                 m_loop, MAX_SCORE, candidates, machine_id, restarts, scores>>

\* (mutant) the edge load incremented in place of the vertex load
VlAsEdgeLoad(w, here, next) ==
  /\ ~aborted
  /\ pc[w] = here
  /\ edgeLoad' = [edgeLoad EXCEPT ![machine_id[w]] = @ + 1]
  /\ pc' = [pc EXCEPT ![w] = next]
  /\ UNCHANGED <<GLOBALS, coordinated, stream, lock, degree, replicaSet,
                 assigned, vertexLoad, ghosts, edge, usleep_time, MIN_LOAD,
                 MAX_LOAD, m_loop, MAX_SCORE, candidates, machine_id, restarts,
                 scores>>

\* 179 / 183: cord_state->incrementMachineLoadVertices(machine_id).  The
\* static_pointer_cast of 174 never throws, so the call is made whatever the
\* state object is.  On a state that is no CoordinatedPartitionState the call
\* is undefined: it goes unnoticed or the process crashes.
Vl(w, here, next) ==
  /\ ~aborted
  /\ pc[w] = here
  /\ IF coordinated
     THEN /\ vertexLoad' = [vertexLoad EXCEPT ![machine_id[w]] = @ + 1]
          /\ UNCHANGED <<baseCalls, aborted>>
     ELSE /\ baseCalls' = baseCalls + 1
          /\ aborted' \in BOOLEAN
          /\ UNCHANGED vertexLoad
  /\ pc' = [pc EXCEPT ![w] = next]
  /\ UNCHANGED <<GLOBALS, coordinated, stream, lock, degree, replicaSet,
                 edgeLoad, assigned, completed, retried, touched, edge, usleep_time, MIN_LOAD,
                 MAX_LOAD, m_loop, MAX_SCORE, candidates, machine_id, restarts,
                 scores>>

ChkU(w) == Chk(w, U(w), "chkU", "addU", "chkV")
AddU(w) == Add(w, U(w), "addU", "vlU")
VlU(w) == Vl(w, "vlU", "chkV")
\* (mutant) 181 tests u_record again
ChkVOfU(w) == Chk(w, U(w), "chkV", "addV", "incLoad")
ChkV(w) == Chk(w, V(w), "chkV", "addV", "incLoad")
AddV(w) == Add(w, V(w), "addV", "vlV")
VlV(w) == Vl(w, "vlV", "incLoad")

\* (mutant) the load counted once per distinct edge of the partition
IncLoadOncePerEdge(w) ==
  /\ ~aborted
  /\ pc[w] = "incLoad"
  /\ edgeLoad' = [edgeLoad EXCEPT ![machine_id[w]] =
                    IF edge[w] \in assigned[machine_id[w]] THEN @ ELSE @ + 1]
  /\ assigned' = [assigned EXCEPT ![machine_id[w]] = @ \cup {edge[w]}]
  /\ pc' = [pc EXCEPT ![w] = "degU"]
  /\ UNCHANGED <<GLOBALS, coordinated, stream, lock, degree, replicaSet,
                 vertexLoad, ghosts, edge, usleep_time, MIN_LOAD, MAX_LOAD,
                 m_loop, MAX_SCORE, candidates, machine_id, restarts, scores>>

\* (mutant) the load of the last partition scored incremented, not that of
\* the partition chosen
IncLoadLastScored(w) ==
  /\ ~aborted
  /\ pc[w] = "incLoad"
  /\ edgeLoad' = [edgeLoad EXCEPT ![m_loop[w] - 1] = @ + 1]
  /\ assigned' = [assigned EXCEPT ![m_loop[w] - 1] = @ \cup {edge[w]}]
  /\ pc' = [pc EXCEPT ![w] = "degU"]
  /\ UNCHANGED <<GLOBALS, coordinated, stream, lock, degree, replicaSet,
                 vertexLoad, ghosts, edge, usleep_time, MIN_LOAD, MAX_LOAD,
                 m_loop, MAX_SCORE, candidates, machine_id, restarts, scores>>

\* 197: state->incrementMachineLoad(machine_id, e)
IncLoad(w) ==
  /\ ~aborted
  /\ pc[w] = "incLoad"
  /\ edgeLoad' = [edgeLoad EXCEPT ![machine_id[w]] = @ + 1]
  /\ assigned' = [assigned EXCEPT ![machine_id[w]] = @ \cup {edge[w]}]
  /\ pc' = [pc EXCEPT ![w] = "degU"]
  /\ UNCHANGED <<GLOBALS, coordinated, stream, lock, degree, replicaSet,
                 vertexLoad, ghosts, edge, usleep_time, MIN_LOAD, MAX_LOAD,
                 m_loop, MAX_SCORE, candidates, machine_id, restarts, scores>>

\* 200 / 201: record->incrementDegree()
Deg(w, x, here, next) ==
  /\ ~aborted
  /\ pc[w] = here
  /\ degree' = incrementDegree(x)
  /\ pc' = [pc EXCEPT ![w] = next]
  /\ UNCHANGED <<GLOBALS, coordinated, stream, lock, replicaSet, edgeLoad,
                 assigned, vertexLoad, ghosts, edge, usleep_time, MIN_LOAD, MAX_LOAD,
                 m_loop, MAX_SCORE, candidates, machine_id, restarts, scores>>

DegU(w) == Deg(w, U(w), "degU", "degV")
DegV(w) == Deg(w, V(w), "degV", "relU")

\* 204: u_record->releaseLock()
RelU(w) ==
  /\ ~aborted
  /\ pc[w] = "relU"
  /\ \E l \in releaseLock(w, U(w)) : lock' = l
  /\ pc' = [pc EXCEPT ![w] = "relV"]
  /\ UNCHANGED <<GLOBALS, coordinated, stream, degree, replicaSet, edgeLoad,
                 assigned, vertexLoad, ghosts, edge, usleep_time, MIN_LOAD, MAX_LOAD,
                 m_loop, MAX_SCORE, candidates, machine_id, restarts, scores>>

\* 205-206: v_record->releaseLock(); return.  The locals of the call die.
RelV(w) ==
  /\ ~aborted
  /\ pc[w] = "relV"
  /\ \E l \in releaseLock(w, V(w)) : lock' = l
  /\ completed' = completed + 1
  /\ retried' = IF restarts[w] > 0 THEN retried + 1 ELSE retried
  /\ touched' = [x \in Vertices |->
                   IF x \in {U(w), V(w)} THEN touched[x] + 1 ELSE touched[x]]
  /\ pc' = [pc EXCEPT ![w] = "idle"]
  /\ edge' = [edge EXCEPT ![w] = <<1, 1>>]
  /\ usleep_time' = [usleep_time EXCEPT ![w] = 2]
  /\ MIN_LOAD' = [MIN_LOAD EXCEPT ![w] = 0]
  /\ MAX_LOAD' = [MAX_LOAD EXCEPT ![w] = 0]
  /\ m_loop' = [m_loop EXCEPT ![w] = 0]
  /\ MAX_SCORE' = [MAX_SCORE EXCEPT ![w] = Zero]
  /\ candidates' = [candidates EXCEPT ![w] = <<>>]
  /\ machine_id' = [machine_id EXCEPT ![w] = -1]
  /\ restarts' = [restarts EXCEPT ![w] = 0]
  /\ scores' = [scores EXCEPT ![w] = <<>>]
  /\ UNCHANGED <<GLOBALS, coordinated, stream, degree, replicaSet, edgeLoad,
                 assigned, vertexLoad, baseCalls, aborted>>

\* the steps of performStep that need no contention
Straight(w) ==
  \/ Call(w) \/ AcquireU(w) \/ AcquireV(w)
  \/ MinLoad(w) \/ MaxLoad(w) \/ ScoreStep(w) \/ Choose(w)
  \/ ChkU(w) \/ AddU(w) \/ VlU(w) \/ ChkV(w) \/ AddV(w) \/ VlV(w)
  \/ IncLoad(w) \/ DegU(w) \/ DegV(w) \/ RelU(w) \/ RelV(w)

\* the steps taken on a lock that is not free
Contended(w) == WaitU(w) \/ WaitV(w) \/ Restart(w)

Step(w) == Straight(w) \/ Contended(w)

\* ------------------------------------------------------- specifications
\* lambda and epsilon as rationals
Lambdas == {Rat(0, 1), Rat(1, 1)}
Epsilons == {Rat(1, 10)}
SleepLimits == {3}

Configs ==
  {Config(NumPartitions, lam, eps, lim) :
     lam \in Lambdas, eps \in Epsilons, lim \in SleepLimits}

\* A fresh state of either capability level, any configuration, and
\* MaxStream edges to come, each any edge of the pool.
Init ==
  /\ GLOBALS \in Configs
  /\ coordinated \in BOOLEAN
  /\ stream = [i \in 1..MaxStream |-> EdgePool]
  /\ FreshLocals
  /\ FreshState

Next == \E w \in Workers : Step(w)
Spec == Init /\ [][Next]_vars

Quiescent == \A w \in Workers : pc[w] = "idle"

\* -------------------------------------------------------------------- C1
\* the scoring / update section, between "locks taken" (105) and the first
\* release (204)
Section ==
  {"minLoad", "maxLoad", "score", "chkU", "addU", "vlU", "chkV", "addV",
   "vlV", "incLoad", "degU", "degV", "relU"}
InSection(w) == pc[w] \in Section
Endpoints(w) == {U(w), V(w)}
\* worker w has taken the lock of record x and not yet released it
Holds(w, x) ==
  \/ x = U(w) /\ pc[w] \in {"lockV", "restart"} \cup Section
  \/ x = V(w) /\ U(w) # V(w) /\ pc[w] \in Section \cup {"relV"}

\* C1: every record's lock is held by at most one worker, and no two workers
\* are inside the scoring / update section for edges that share an endpoint.
MutualExclusion ==
  \A w1, w2 \in Workers :
    w1 # w2 =>
      /\ \A x \in Vertices : ~(Holds(w1, x) /\ Holds(w2, x))
      /\ InSection(w1) /\ InSection(w2) => Endpoints(w1) \cap Endpoints(w2) = {}

\* -------------------------------------------------------------------- C3
\* a call past line 197 has incremented its partition's edge load
PastIncrement == {"degU", "degV", "relU", "relV"}

\* C3: the edge loads sum to the number of completed calls plus the calls in
\* progress that are past their increment; so when no call is in progress
\* the sum is the number of completed calls, restarts or not.
EdgeLoadConservation ==
  SumOver(edgeLoad, Partitions) =
    completed + Cardinality({w \in Workers : pc[w] \in PastIncrement})

\* no call in progress, several completed, one of them after a restart
EdgeLoadWitness ==
  /\ Quiescent
  /\ completed >= 2
  /\ retried >= 1
  /\ SumOver(edgeLoad, Partitions) = completed

\* -------------------------------------------------------------------- C4
\* C4: with no call in progress, the degree of every vertex is the number of
\* completed calls whose edge touches it (a self-loop counted once).
DegreeCounts ==
  Quiescent => \A x \in Vertices : degree[x] = touched[x]

\* -------------------------------------------------------------------- C7
\* C7: no step removes a partition from a replica set; a step leaves a replica
\* set as it is or adds one partition to it.
ReplicaMonotone ==
  [][\A x \in Vertices :
       /\ replicaSet[x] \subseteq replicaSet'[x]
       /\ Cardinality(replicaSet'[x] \ replicaSet[x]) <= 1]_vars

\* a vertex with a replica, touched by two completed calls, one call having
\* restarted
ReplicaWitness ==
  \E x \in Vertices :
    replicaSet[x] # {} /\ touched[x] >= 2 /\ retried >= 1

\* -------------------------------------------------------------------- C8
\* C8: a vertex of degree >= 1 has a replica, and every edge placed in a
\* partition m has both endpoints replicated in m.
EdgeContained ==
  /\ \A x \in Vertices : degree[x] >= 1 => replicaSet[x] # {}
  /\ \A m \in Partitions : \A e \in assigned[m] :
       m \in replicaSet[e[1]] /\ m \in replicaSet[e[2]]

\* both partitions hold an edge, and some vertex is replicated in both
EdgeContainedWitness ==
  /\ \A m \in Partitions : assigned[m] # {}
  /\ \E x \in Vertices : replicaSet[x] = Partitions /\ degree[x] >= 2

\* -------------------------------------------------------------------- C9
\* C9: incrementMachineLoadVertices is never invoked on a state that lacks
\* the coordinated capability.
NoVertexLoadCallOnBase == ~coordinated => baseCalls = 0

\* -------------------------------------------------------------------- C2
\* Two workers, the edges (1, 2) and (2, 1), a coordinated state.
SwapInit ==
  /\ GLOBALS \in Configs
  /\ coordinated = TRUE
  /\ stream = << {<<1, 2>>}, {<<2, 1>>} >>
  /\ FreshLocals
  /\ FreshState

\* every worker that can take a step eventually takes one
FairSwapSpec ==
  SwapInit /\ [][Next]_vars /\ \A w \in Workers : WF_vars(Step(w))

\* C2: under fair scheduling the calls on (1, 2) and (2, 1) both complete,
\* with every lock free.
BothComplete ==
  <>(completed = 2 /\ Quiescent /\ \A x \in Vertices : lock[x] = 0)

\* -------------------------------------------------------------------- C5
\* the number of vertices with a replica in partition m
Replicas(m) == Cardinality({x \in Vertices : m \in replicaSet[x]})

\* C5: on a coordinated state with no call in progress, the vertex load of
\* every partition is the number of vertices replicated in it.
VertexLoadConsistent ==
  coordinated /\ Quiescent => \A m \in Partitions : vertexLoad[m] = Replicas(m)

\* Two workers, lambda = 0, the edges (2, 3), (1, 1), (1, 2), (1, 3) in
\* this order.
RaceInit ==
  /\ GLOBALS = Config(NumPartitions, Rat(0, 1), Rat(1, 10), 3)
  /\ coordinated \in BOOLEAN
  /\ stream = << {<<2, 3>>}, {<<1, 1>>}, {<<1, 2>>}, {<<1, 3>>} >>
  /\ FreshLocals
  /\ FreshState

RaceSpec == RaceInit /\ [][Next]_vars

\* -------------------------------------------------------------------- C6
\* performStep run alone, as a function: 106-201 on a state
\* st = [deg, rep, el, vl] with nobody else running.

\* 113-153: the candidates left by the scoring loop from iteration m on
RECURSIVE ScoringLoop(_, _, _, _, _, _, _, _)
ScoringLoop(st, u, v, m, maxl, minl, maxScore, cands) ==
  IF m >= P THEN cands
  ELSE LET SCORE_m == ScoreOf(st.deg[u], st.deg[v], m \in st.rep[u],
                              m \in st.rep[v], st.el[m], maxl, minl)
       IN IF RatLess(maxScore, SCORE_m)
          THEN ScoringLoop(st, u, v, m + 1, maxl, minl, SCORE_m, <<m>>)
          ELSE IF RatEq(SCORE_m, maxScore)
          THEN ScoringLoop(st, u, v, m + 1, maxl, minl, maxScore,
                           Append(cands, m))
          ELSE ScoringLoop(st, u, v, m + 1, maxl, minl, maxScore, cands)

\* 109-153: the candidate partitions of edge (u, v) on state st
CandidatesOn(st, u, v) ==
  LET loads == {st.el[m] : m \in Partitions}
  IN ScoringLoop(st, u, v, 0, SetMax(loads), SetMin(loads), Zero, <<>>)

\* 172-201: the state after placing edge (u, v) in partition c
Place(st, u, v, c, coord) ==
  LET newU == IF c \in st.rep[u] THEN 0 ELSE 1
      rep1 == [x \in Vertices |-> IF x = u THEN st.rep[x] \cup {c} ELSE st.rep[x]]
      newV == IF c \in rep1[v] THEN 0 ELSE 1
      rep2 == [x \in Vertices |-> IF x = v THEN rep1[x] \cup {c} ELSE rep1[x]]
      deg1 == [x \in Vertices |-> IF x = u THEN st.deg[x] + 1 ELSE st.deg[x]]
      deg2 == [x \in Vertices |-> IF x = v THEN deg1[x] + 1 ELSE deg1[x]]
  IN [deg |-> deg2,
      rep |-> rep2,
      el |-> [m \in Partitions |-> IF m = c THEN st.el[m] + 1 ELSE st.el[m]],
      vl |-> [m \in Partitions |->
                IF coord /\ m = c THEN st.vl[m] + newU + newV ELSE st.vl[m]]]

\* the states one call on edge e can leave, one per tie-break outcome
StepOn(st, e, coord) ==
  LET cands == CandidatesOn(st, e[1], e[2])
  IN {Place(st, e[1], e[2], cands[i], coord) : i \in 1..Len(cands)}

\* the final <<edgeLoad, vertexLoad>> of processing the edges of R one after
\* the other, in any order, from state st
RECURSIVE SeqFinals(_, _, _)
SeqFinals(st, R, coord) ==
  IF R = {} THEN {<<st.el, st.vl>>}
  ELSE UNION {UNION {SeqFinals(st2, R \ {e}, coord) : st2 \in StepOn(st, e, coord)}
                : e \in R}

FreshSeqState ==
  [deg |-> [x \in Vertices |-> 0],
   rep |-> [x \in Vertices |-> {}],
   el |-> [m \in Partitions |-> 0],
   vl |-> [m \in Partitions |-> 0]]

\* edges with pairwise distinct endpoints
DisjointEdges == {<<1, 2>>, <<3, 4>>}

\* Two workers, one edge each, no endpoint in common.
DisjointInit ==
  /\ GLOBALS \in Configs
  /\ coordinated \in BOOLEAN
  /\ stream = << {<<1, 2>>}, {<<3, 4>>} >>
  /\ FreshLocals
  /\ FreshState

\* no lock is ever found taken here, so only the straight steps occur
DisjointNext == \E w \in Workers : Straight(w)
DisjointSpec == DisjointInit /\ [][DisjointNext]_vars

AllDone == Quiescent /\ stream = <<>>

\* C6 as stated: the final load totals of every interleaving are those of
\* some sequential order of the same edges.
SameAsSequential ==
  AllDone =>
    <<edgeLoad, vertexLoad>> \in SeqFinals(FreshSeqState, DisjointEdges, coordinated)

\* C6 amended: no worker ever meets a taken lock; in the end no update is
\* lost and no replica counted twice (the edge loads sum to the number of
\* edges, every endpoint has one replica, the vertex loads count the
\* replicas), and for lambda = 0 the load totals are those of some sequential
\* order.
SameTotalsAsSequential ==
  /\ \A w \in Workers : ~ENABLED Contended(w)
  /\ AllDone =>
       /\ SumOver(edgeLoad, Partitions) = Cardinality(DisjointEdges)
       /\ \A e \in DisjointEdges : \A i \in 1..2 : Cardinality(replicaSet[e[i]]) = 1
       /\ coordinated => \A m \in Partitions : vertexLoad[m] = Replicas(m)
       /\ lambda = Zero =>
            <<edgeLoad, vertexLoad>> \in
              SeqFinals(FreshSeqState, DisjointEdges, coordinated)

\* both edges done, both in the same partition
DisjointWitness ==
  /\ AllDone
  /\ completed = 2
  /\ \E m \in Partitions : edgeLoad[m] = 2 /\ (coordinated => vertexLoad[m] = 4)

\* ------------------------------------------------------------------- C10
\* One worker, P = 2, lambda = 1, epsilon = 0.1, the edges (1, 2), (2, 3),
\* (1, 3) in this order on a fresh state.
ScenarioInit ==
  /\ \E lim \in SleepLimits : GLOBALS = Config(2, Rat(1, 1), Rat(1, 10), lim)
  /\ coordinated \in BOOLEAN
  /\ stream = << {<<1, 2>>}, {<<2, 3>>}, {<<1, 3>>} >>
  /\ FreshLocals
  /\ FreshState

ScenarioNext == Straight(1)
ScenarioSpec == ScenarioInit /\ [][ScenarioNext]_vars

\* C10 as stated: in the end the two edge loads differ by at most 1.
LoadsWithinOne ==
  AllDone => Abs(edgeLoad[0] - edgeLoad[1]) <= 1

\* C10 amended: in the end all three edges are in the partition the first
\* tie-break chose, so the edge loads are 3 and 0.
LoadsAllInOne ==
  AllDone => {edgeLoad[0], edgeLoad[1]} = {0, 3}

\* the three edges processed
ScenarioWitness ==
  AllDone /\ completed = 3 /\ edgeLoad[1] = 3

\* ------------------------------------------------------------------- C11
\* the calls past the replica update (172-194) that still hold the lock of x
PastReplicaUpdate(w, x) ==
  \/ x \in Endpoints(w) /\ pc[w] \in {"incLoad", "degU", "degV", "relU"}
  \/ x = V(w) /\ U(w) # V(w) /\ pc[w] = "relV"

\* the number of times the call of w has incremented the degree of x so far
Incremented(w, x) ==
  (IF x = U(w) /\ pc[w] \in {"degV", "relU", "relV"} THEN 1 ELSE 0)
  + (IF x = V(w) /\ pc[w] \in {"relU", "relV"} THEN 1 ELSE 0)

\* C11: with lambda = 0, a call on an edge touching a vertex x that no other
\* call has counted in its degree leaves replicaSet[x] with exactly one member,
\* the chosen partition, whatever the tie-break; and a step adds to a replica
\* set only the chosen partition of a call on an edge touching that vertex.
FirstTouchOneReplica ==
  /\ [](lambda = Zero =>
          \A w \in Workers : \A x \in Vertices :
            PastReplicaUpdate(w, x) /\ degree[x] = Incremented(w, x)
              => replicaSet[x] = {machine_id[w]})
  /\ [][\A x \in Vertices :
          replicaSet'[x] # replicaSet[x] =>
            \E w \in Workers :
              /\ x \in Endpoints(w)
              /\ pc[w] \in {"addU", "addV"}
              /\ replicaSet'[x] = replicaSet[x] \cup {machine_id[w]}]_vars

\* lambda = 0, a call on an edge of two untouched vertices has ended a tie of
\* all partitions by choosing the last one, and is about to release the locks
FirstTouchWitness ==
  \E w \in Workers :
    /\ lambda = Zero
    /\ pc[w] = "relU"
    /\ U(w) # V(w)
    /\ degree[U(w)] = 1 /\ degree[V(w)] = 1
    /\ Len(candidates[w]) = P
    /\ machine_id[w] = P - 1
    /\ replicaSet[U(w)] = {P - 1} /\ replicaSet[V(w)] = {P - 1}

\* ------------------------------------------------------------------- C12
\* the valid configurations: P >= 1, lambda >= 0, epsilon > 0
ValidLambdas == {Rat(0, 1), Rat(1, 2), Rat(2, 1)}
ValidEpsilons == {Rat(1, 10), Rat(1, 1)}
ValidConfigs ==
  {Config(p, lam, eps, lim) :
     p \in 1..NumPartitions, lam \in ValidLambdas, eps \in ValidEpsilons,
     lim \in SleepLimits}

\* Two workers, two edges of the pool, any valid configuration.
ValidInit ==
  /\ GLOBALS \in ValidConfigs
  /\ coordinated \in BOOLEAN
  /\ stream = [i \in 1..2 |-> EdgePool]
  /\ FreshLocals
  /\ FreshState

ValidSpec == ValidInit /\ [][Next]_vars

\* 132-133 before the clamp: MAX_LOAD - load, which has the sign of bal as
\* long as the divisor epsilon + MAX_LOAD - MIN_LOAD is positive
RawBalance(w, m) == MAX_LOAD[w] - edgeLoad[m]

\* C12: under a valid configuration the divisor of line 133 is positive, the
\* score about to be computed in the loop is never negative, the candidate
\* list is not empty when the loop is left, and the process ends only by the
\* crash of a vertex-load call made on a base-level state: neither exit(-1)
\* is taken.
NoFatalPath ==
  /\ \A w \in Workers :
       pc[w] = "score" =>
         /\ MIN_LOAD[w] <= MAX_LOAD[w]
         /\ m_loop[w] < P => ~RatLess(Score(w, m_loop[w]), Zero)
         /\ m_loop[w] >= P => candidates[w] # <<>>
  /\ aborted => ~coordinated /\ baseCalls > 0

\* a worker about to score, with lambda > 0, a partition whose load has grown
\* past its MAX_LOAD snapshot, while the worker before it left the loop with
\* a single candidate
NoFatalPathWitness ==
  \E w \in Workers :
    /\ pc[w] = "score"
    /\ m_loop[w] < P
    /\ RatLess(Zero, lambda)
    /\ RawBalance(w, m_loop[w]) < 0
    /\ \E w2 \in Workers : pc[w2] \in Section /\ Len(candidates[w2]) = 1

\* ------------------------------------------------------------------- C13
\* backoff ceilings up to the largest int
BackoffLimits == {1, 3, 65535, 65536, INT_MAX}

\* Two workers, the edges (1, 2) and (2, 1), any of the ceilings.
BackoffInit ==
  /\ \E lim \in BackoffLimits :
       GLOBALS = Config(NumPartitions, Rat(0, 1), Rat(1, 10), lim)
  /\ coordinated = TRUE
  /\ stream = << {<<1, 2>>}, {<<2, 1>>} >>
  /\ FreshLocals
  /\ FreshState

BackoffSpec == BackoffInit /\ [][Next]_vars

\* 85, 94: the delays 2, 2^2, 4^2, 16^2, 256^2 that fit an int; the next
\* square, 2^32, is larger than every int
DelayLadder == {2, 4, 16, 256, 65536}

\* C13: a worker that holds the lock of u and waits for the lock of v has
\* failed at most four polls in a row: its delay is 2, 4, 16, 256 or 65536 and
\* has not exceeded SLEEP_LIMIT, and the next failed poll squares it again, so
\* that after at most five failed polls the delay exceeds SLEEP_LIMIT and the
\* worker releases u and restarts.
BackoffReachesCeiling ==
  \A w \in Workers :
    pc[w] = "lockV" =>
      /\ usleep_time[w] \in DelayLadder
      /\ usleep_time[w] = 2 \/ usleep_time[w] <= GLOBALS.SLEEP_LIMIT

\* ------------------------------------------------------------------- C14
\* where a call stands right before one of its writes of 178-201
Mutating == {"addU", "vlU", "addV", "vlV", "incLoad", "degU", "degV"}

\* C14: every step that changes a degree, a replica set, an edge load or a
\* vertex load is taken by a worker that holds the lock of u and the lock of
\* v of its edge; and the step by which a worker gives up and restarts
\* changes none of them, is taken by the holder of u's lock and changes the
\* locks only by setting u's lock free.
RestartSideEffectFree ==
  [][/\ <<degree, replicaSet, edgeLoad, vertexLoad>>' #
          <<degree, replicaSet, edgeLoad, vertexLoad>>
        => \E w \in Workers :
             /\ pc[w] \in Mutating
             /\ pc'[w] # pc[w]
             /\ lock[U(w)] = w
             /\ lock[V(w)] = w
     /\ \A w \in Workers :
          pc[w] = "restart" /\ pc'[w] = "lockU" =>
            /\ UNCHANGED <<degree, replicaSet, edgeLoad, vertexLoad>>
            /\ lock[U(w)] = w
            /\ lock' = [lock EXCEPT ![U(w)] = 0]]_vars

\* ------------------------------------------------------------------- C15
\* C15: a worker about to call releaseLock on a record (97, 204, 205) is the
\* holder of that record's lock, so that every lock taken is released once,
\* also for a self-loop; and a worker that is in no call holds no lock.
ReleaseByHolder ==
  \A w \in Workers :
    /\ pc[w] \in {"restart", "relU"} => lock[U(w)] = w
    /\ pc[w] = "relV" => lock[V(w)] = w
    /\ pc[w] = "idle" => \A x \in Vertices : lock[x] # w

\* ------------------------------------------------------------------- C16
\* the partitions whose score, in the sequence sc of the scores computed by
\* the loop (sc[m + 1] for partition m), is the largest
Maximisers(sc) ==
  {m \in Partitions : \A k \in Partitions : ~RatLess(sc[m + 1], sc[k + 1])}

\* the call has left the scoring loop and chosen its partition
Chosen == {"chkU", "addU", "vlU", "chkV", "addV", "vlV", "incLoad",
           "degU", "degV", "relU", "relV"}

AffinityInit ==
  /\ \E lim \in SleepLimits :
       GLOBALS = Config(NumPartitions, Rat(0, 1), Rat(1, 10), lim)
  /\ coordinated \in BOOLEAN
  /\ stream = << {<<1, 2>>}, {<<3, 4>>}, {<<1, 2>>, <<3, 4>>},
                 {<<1, 3>>, <<3, 1>>, <<2, 4>>} >>
  /\ FreshLocals
  /\ FreshState

AffinityNext == Straight(1)
AffinitySpec == AffinityInit /\ [][AffinityNext]_vars

\* the call of w has just chosen its partition (171) for an edge whose
\* endpoints differ in degree, u with its only replica in partition a and v
\* with its only replica in partition b # a
ReplicasApart(w, a, b) ==
  /\ pc[w] = "chkU"
  /\ lambda = Zero
  /\ a # b
  /\ replicaSet[U(w)] = {a}
  /\ replicaSet[V(w)] = {b}
  /\ degree[U(w)] # degree[V(w)]

\* C17 as stated: the partition of the higher-degree endpoint's replica has
\* the strictly higher score and is the one chosen.
HighDegreeFavoured ==
  \A w \in Workers : \A a, b \in Partitions :
    ReplicasApart(w, a, b) =>
      LET high == IF degree[U(w)] > degree[V(w)] THEN a ELSE b
          low == IF degree[U(w)] > degree[V(w)] THEN b ELSE a
      IN /\ RatLess(scores[w][low + 1], scores[w][high + 1])
         /\ machine_id[w] = high

\* C17 amended: the partition of the lower-degree endpoint's replica has the
\* strictly higher score and is the one chosen, so that the higher-degree
\* endpoint is the one that gets a new replica.
LowDegreeFavoured ==
  \A w \in Workers : \A a, b \in Partitions :
    ReplicasApart(w, a, b) =>
      LET high == IF degree[U(w)] > degree[V(w)] THEN a ELSE b
          low == IF degree[U(w)] > degree[V(w)] THEN b ELSE a
      IN /\ RatLess(scores[w][high + 1], scores[w][low + 1])
         /\ machine_id[w] = low
         /\ \A m \in Partitions \ {low} :
              RatLess(scores[w][m + 1], scores[w][low + 1])

\* the edge (3, 1) with vertex 3 of degree 2 in partition 1 and vertex 1 of
\* degree 1 in partition 0
LowDegreeWitness ==
  /\ ReplicasApart(1, 1, 0)
  /\ edge[1] = <<3, 1>>
  /\ degree[3] = 2 /\ degree[1] = 1
  /\ machine_id[1] = 0

\* ------------------------------------------------------------------- C18
\* the records whose lock worker w owns
Owned(w) == {x \in Vertices : lock[x] = w}

\* C18: a worker in no call or polling the lock of u (86-89, the wait without
\* a ceiling) owns no lock; a worker polling the lock of v (92-96) owns at
\* most the lock of u; and a worker owns locks of endpoints of its edge only.
NoHoldAndWait ==
  \A w \in Workers :
    /\ pc[w] \in {"idle", "lockU"} => Owned(w) = {}
    /\ pc[w] \in {"lockV", "restart"} => Owned(w) \subseteq {U(w)}
    /\ Owned(w) \subseteq Endpoints(w)

\* a worker that has restarted polls the lock of u, which the other worker
\* owns together with the lock of its other endpoint
NoHoldAndWaitWitness ==
  \E w, w2 \in Workers :
    /\ pc[w] = "lockU"
    /\ restarts[w] >= 1
    /\ usleep_time[w] > 2
    /\ lock[U(w)] = w2
    /\ Cardinality(Owned(w2)) = 2

\* ------------------------------------------------------------------- C19
\* worker w takes a step from one of the places of From
Leaves(w, From) == pc[w] \in From /\ pc'[w] # pc[w]

\* C19: no step changes the configuration; a step changes the degree or the
\* replica set of a vertex only as the increment (200-201) or the addPartition
\* (178, 182) of a call on an edge with that endpoint, and the edge load or
\* the vertex load of a partition only as the increment by 1 of a call that
\* chose that partition; a call increments the edge load at line 197 and, on a
\* coordinated state, the vertex load once for each endpoint it found without
\* a replica in the chosen partition, which for u == v is never the second.
FrameOfAssign ==
  /\ [](\A w \in Workers :
          /\ pc[w] \in {"addV", "vlV"} => U(w) # V(w)
          /\ pc[w] = "vlU" => machine_id[w] \in replicaSet[U(w)]
          /\ pc[w] = "vlV" => machine_id[w] \in replicaSet[V(w)])
  /\ [][/\ GLOBALS' = GLOBALS
        /\ \A x \in Vertices :
             /\ degree'[x] # degree[x] =>
                  \E w \in Workers :
                    /\ Leaves(w, {"degU", "degV"})
                    /\ x \in Endpoints(w)
                    /\ degree'[x] = degree[x] + 1
             /\ replicaSet'[x] # replicaSet[x] =>
                  \E w \in Workers :
                    /\ Leaves(w, {"addU", "addV"})
                    /\ x \in Endpoints(w)
                    /\ replicaSet'[x] = replicaSet[x] \cup {machine_id[w]}
        /\ \A m \in Partitions :
             /\ edgeLoad'[m] # edgeLoad[m] =>
                  \E w \in Workers :
                    /\ Leaves(w, {"incLoad"})
                    /\ machine_id[w] = m
                    /\ edgeLoad'[m] = edgeLoad[m] + 1
             /\ vertexLoad'[m] # vertexLoad[m] =>
                  \E w \in Workers :
                    /\ Leaves(w, {"vlU", "vlV"})
                    /\ machine_id[w] = m
                    /\ vertexLoad'[m] = vertexLoad[m] + 1
        /\ \A w \in Workers :
             /\ Leaves(w, {"incLoad"}) =>
                  edgeLoad'[machine_id[w]] = edgeLoad[machine_id[w]] + 1
             /\ coordinated /\ Leaves(w, {"vlU", "vlV"}) =>
                  vertexLoad'[machine_id[w]] = vertexLoad[machine_id[w]] + 1
             /\ Leaves(w, {"chkU"}) =>
                  (pc'[w] = "addU" <=> machine_id[w] \notin replicaSet[U(w)])
             /\ Leaves(w, {"chkV"}) =>
                  (pc'[w] = "addV" <=> machine_id[w] \notin replicaSet[V(w)])]_vars

\* on a coordinated state two calls have completed on edges with one endpoint
\* in common, both in partition m: three vertices counted in m, nothing in
\* the other partitions, and the fourth vertex untouched
FrameWitness ==
  /\ coordinated
  /\ Quiescent
  /\ completed = 2
  /\ \E m \in Partitions :
       /\ edgeLoad[m] = 2 /\ vertexLoad[m] = 3
       /\ \A k \in Partitions \ {m} : edgeLoad[k] = 0 /\ vertexLoad[k] = 0
  /\ \E x \in Vertices : degree[x] = 2
  /\ \E x \in Vertices : degree[x] = 0 /\ replicaSet[x] = {}

====
